---- MODULE Spec2Model ----
(***************************************************************************)
(* Model of pkg/cli/config/config.go of backplane-cli: the configuration   *)
(* resolver GetBackplaneConfiguration, the proxy sweep                     *)
(* getFirstWorkingProxyURL, the validator verifyBackplaneConfiguration and *)
(* the connection check CheckAPIConnection.                                *)
(*                                                                         *)
(* Process-wide state: the viper singleton's loaded configuration and      *)
(* net/http's DefaultTransport.  Everything else is local to one call and  *)
(* is released when the call returns.                                      *)
(*                                                                         *)
(* Strings are TLA+ strings, except the value of a proxy environment       *)
(* variable, which is a sequence of tokens (a candidate or a blank) so     *)
(* that the split on white space viper applies to it is computed.          *)
(* A Go "(val, ok)" pair is a record [ok, val]; a *string is <<>> (nil) or *)
(* <<s>>; an error is a record [kind, env], kind "nil" for no error.       *)
(***************************************************************************)
EXTENDS Integers, Sequences, FiniteSets, TLC

VARIABLES
    viperConfig,       \* viper singleton: the configuration ReadInConfig loaded last
    defaultTransport,  \* http.DefaultTransport: "direct" or the proxy it routes through
    pc,                \* where the running call is ("idle": between calls)
    inp,               \* what the running call has read from its surroundings so far
    bpConfig,          \* the BackplaneConfiguration of the running call
    err,               \* the error the call returns
    cands,             \* proxyInConfigFile: the slice handed to getFirstWorkingProxyURL
    idx,               \* position of the range loop over cands
    probes,            \* the GET probes clientDo has sent in this call, in order
    heads,             \* the HEAD requests client.Do has sent in this call, in order
    report             \* what verifyBackplaneConfiguration has logged and printed

vars == <<viperConfig, defaultTransport, pc, inp, bpConfig, err, cands, idx,
          probes, heads, report>>

----------------------------------------------------------------------------
(* Bounds of the model *)

\* most candidates a configuration file or an environment variable lists
MaxListed == 1
\* longest slice handed to getFirstWorkingProxyURL on its own
MaxCands == 2

----------------------------------------------------------------------------
(* Values *)

StatusOK == 200
\* the statuses other than 200 a server answers with here
OtherStatuses == {503}

\* proxy candidates: two that url.ParseRequestURI accepts, one it rejects
GoodProxies == {"http://p1:3128", "http://p2:3128"}
BadProxy == "::bad"
Candidates == GoodProxies \cup {BadProxy}
Blank == " "

\* a service URL http.NewRequest cannot parse (a blank in the host)
BadURL == "http://bad host"
EnvURLs == {"", "https://env.api", BadURL}
OcmURL == "https://ocm.api"

NoErr == [kind |-> "nil", env |-> ""]
Unset == [ok |-> FALSE, val |-> ""]
UnsetList == [ok |-> FALSE, val |-> <<>>]
Set(v) == [ok |-> TRUE, val |-> v]

SeqsUpTo(S, n) == UNION {[1..k -> S] : k \in 0..n}

EmptyConfig == [url |-> "", sd |-> "", arn |-> "", proxy |-> <<>>]
ZeroConfig == [URL |-> "", ProxyURL |-> <<>>, SessionDirectory |-> "",
               AssumeInitialArn |-> ""]
NoReport == [warned |-> {}, template |-> FALSE, dumped |-> FALSE, logs |-> {}]

----------------------------------------------------------------------------
(* The surroundings a call reads: file system, environment, OCM, network *)

\* the configuration file at GetConfigFilePath(): missing, present but
\* unreadable, present but not JSON, or a JSON object with these keys
FileConfigs ==
    [url : {"", "https://file.api"}, sd : {"", "/file/dir"},
     arn : {"", "arn:file"}, proxy : SeqsUpTo(Candidates, MaxListed)]
Files ==
    {[kind |-> k, cfg |-> EmptyConfig] : k \in {"absent", "unreadable", "malformed"}}
    \cup {[kind |-> "json", cfg |-> c] : c \in FileConfigs}

\* strings.Join(ws, " ")
RECURSIVE Join(_)
Join(ws) ==
    IF Len(ws) = 0 THEN <<>>
    ELSE IF Len(ws) = 1 THEN <<ws[1]>>
    ELSE <<ws[1], Blank>> \o Join(Tail(ws))

\* the values a proxy environment variable can hold: unset, empty, blank,
\* or candidates separated by blanks
ProxyEnvValues ==
    {UnsetList, Set(<<>>), Set(<<Blank>>)}
    \cup {Set(Join(ws)) : ws \in SeqsUpTo(Candidates, MaxListed) \ {<<>>}}

\* ocm.DefaultOCMInterface.GetOCMEnvironment() and ocmEnv.GetBackplaneURL()
OcmResults ==
    {[called |-> TRUE, failed |-> TRUE, name |-> "", url |-> "", found |-> FALSE],
     [called |-> TRUE, failed |-> FALSE, name |-> "production", url |-> OcmURL,
      found |-> TRUE],
     [called |-> TRUE, failed |-> FALSE, name |-> "integration", url |-> "",
      found |-> FALSE]}
OcmNotCalled ==
    [called |-> FALSE, failed |-> FALSE, name |-> "", url |-> "", found |-> FALSE]

\* what clientDo / client.Do returns: a transport error or a response
TransportError == [failed |-> TRUE, StatusCode |-> 0]
Response(code) == [failed |-> FALSE, StatusCode |-> code]
Outcomes == {TransportError, Response(StatusOK)} \cup {Response(c) : c \in OtherStatuses}

\* url.Parse inside http.NewRequest: the blank in the host is rejected,
\* with or without a path after it
RequestBuilds(u) == u \notin {BadURL, BadURL \o "/healthz"}
\* an empty URL has no scheme and no host: the round trip always fails
OutcomesFor(u) == IF u = "" THEN {TransportError} ELSE Outcomes

\* the variables AutomaticEnv() makes viper read, named after the keys
\* (URL, SESSION-DIR, ASSUME-INITIAL-ARN, PROXY-URL): none of them set, or
\* one of them
NoAuto == [url |-> Unset, sd |-> Unset, arn |-> Unset, proxy |-> UnsetList]
AutoEnvs ==
    {NoAuto,
     [NoAuto EXCEPT !.url = Set("https://auto.api")],
     [NoAuto EXCEPT !.sd = Set("/env/dir")],
     [NoAuto EXCEPT !.arn = Set("arn:env")],
     [NoAuto EXCEPT !.proxy = Set(<<"http://p2:3128">>)]}

NoInput ==
    [pathErr |-> FALSE, file |-> [kind |-> "absent", cfg |-> EmptyConfig],
     auto |-> NoAuto, envURL |-> Unset, ocm |-> OcmNotCalled,
     envProxy |-> UnsetList, config |-> ZeroConfig, stat |-> "absent"]

----------------------------------------------------------------------------
(* viper *)

\* viper.getEnv: a variable that is set but empty counts as not set
\* (AllowEmptyEnv is never called)
getEnv(e) == e.ok /\ Len(e.val) > 0
getEnvString(e) == e.ok /\ e.val # ""

\* strings.Fields, which cast.ToStringSlice applies to a string value
Fields(s) == SelectSeq(s, LAMBDA t : t # Blank)

\* viper.GetString(key): after AutomaticEnv() the variable named after the
\* key wins, then the loaded configuration, then ""
GetString(auto, fileValue) == IF getEnvString(auto) THEN auto.val ELSE fileValue

\* a lookup that prefers the list of the loaded configuration
GetStringSliceFileFirst(auto, bound, config) ==
    IF config.proxy # <<>> THEN config.proxy
    ELSE IF getEnv(auto) THEN Fields(auto.val)
    ELSE IF getEnv(bound) THEN Fields(bound.val)
    ELSE <<>>

\* viper.GetStringSlice("proxy-url"): the variable named after the key, then
\* the variable BindEnv bound to it, then the loaded configuration
GetStringSliceProxyURL(auto, bound, config) ==
    IF getEnv(auto) THEN Fields(auto.val)
    ELSE IF getEnv(bound) THEN Fields(bound.val)
    ELSE config.proxy

\* getBackplaneEnv: os.LookupEnv, set-but-empty counts as set
getBackplaneEnv(e) == e

----------------------------------------------------------------------------
(* GetBackplaneConfiguration *)

Init ==
    /\ viperConfig = EmptyConfig
    /\ defaultTransport = "direct"
    /\ pc = "idle"
    /\ inp = NoInput
    /\ bpConfig = ZeroConfig
    /\ err = NoErr
    /\ cands = <<>>
    /\ idx = 0
    /\ probes = <<>>
    /\ heads = <<>>
    /\ report = NoReport

\* lines 46-62: locate the file and, if it exists, load it into viper
LoadConfigFile ==
    /\ pc = "idle"
    /\ \E pathErr \in BOOLEAN, f \in Files :
        /\ pathErr => f = [kind |-> "absent", cfg |-> EmptyConfig]
        /\ inp' = [inp EXCEPT !.pathErr = pathErr, !.file = f]
        /\ IF pathErr
           THEN /\ err' = [kind |-> "homedir", env |-> ""]
                /\ pc' = "resolved"
                /\ UNCHANGED viperConfig
           ELSE IF f.kind = "absent"
           THEN /\ pc' = "loaded"
                /\ UNCHANGED <<viperConfig, err>>
           ELSE IF f.kind = "json"
           THEN /\ viperConfig' = f.cfg
                /\ pc' = "loaded"
                /\ UNCHANGED err
           ELSE /\ err' = [kind |-> f.kind, env |-> ""]
                /\ pc' = "resolved"
                /\ UNCHANGED viperConfig
    /\ UNCHANGED <<defaultTransport, bpConfig, cands, idx, probes, heads, report>>

\* a lookup that drops the "ok" of ocmEnv.GetBackplaneURL()
GetBackplaneURLIgnoresFound(o) ==
    IF o.failed THEN [url |-> "", err |-> [kind |-> "ocm", env |-> ""]]
    ELSE [url |-> o.url, err |-> NoErr]

\* lines 206-218: the URL registered for the OCM environment, or an error
\* when the environment cannot be fetched or has no URL registered
GetBackplaneURL(o) ==
    IF o.failed THEN [url |-> "", err |-> [kind |-> "ocm", env |-> ""]]
    ELSE IF ~o.found THEN [url |-> "", err |-> [kind |-> "noendpoint", env |-> o.name]]
    ELSE [url |-> o.url, err |-> NoErr]

\* lines 64-84: bind the proxy variable, warn about a url key, set URL
ResolveURL ==
    /\ pc = "loaded"
    /\ \E auto \in AutoEnvs,
          envURL \in {Unset} \cup {Set(u) : u \in EnvURLs} :
        LET url == getBackplaneEnv(envURL)
            logs == IF GetString(auto.url, viperConfig.url) # ""
                    THEN {"deprecated-url"} ELSE {}
        IN  /\ report' = [report EXCEPT !.logs = logs]
            /\ IF url.ok
               THEN /\ inp' = [inp EXCEPT !.auto = auto, !.envURL = envURL]
                    /\ bpConfig' = [bpConfig EXCEPT !.URL = url.val]
                    /\ pc' = "urlset"
                    /\ UNCHANGED err
               ELSE \E o \in OcmResults :
                    /\ inp' = [inp EXCEPT !.auto = auto, !.envURL = envURL,
                                          !.ocm = o]
                    /\ bpConfig' = [bpConfig EXCEPT !.URL = GetBackplaneURL(o).url]
                    /\ err' = GetBackplaneURL(o).err
                    /\ pc' = IF GetBackplaneURL(o).err = NoErr
                             THEN "urlset" ELSE "resolved"
    /\ UNCHANGED <<viperConfig, defaultTransport, cands, idx, probes, heads>>

\* lines 86-91: session directory, ARN and the proxy candidates from viper
ReadSettings ==
    /\ pc = "urlset"
    /\ \E envProxy \in ProxyEnvValues :
        /\ inp' = [inp EXCEPT !.envProxy = envProxy]
        /\ bpConfig' = [bpConfig EXCEPT
                          !.SessionDirectory = GetString(inp.auto.sd, viperConfig.sd),
                          !.AssumeInitialArn = GetString(inp.auto.arn, viperConfig.arn)]
        /\ cands' = GetStringSliceProxyURL(inp.auto.proxy, envProxy, viperConfig)
    /\ idx' = 1
    /\ pc' = "sweep"
    /\ UNCHANGED <<viperConfig, defaultTransport, err, probes, heads, report>>

----------------------------------------------------------------------------
(* getFirstWorkingProxyURL *)

\* line 167
HealthURL(config) == config.URL \o "/healthz"

\* a sweep that does not check the parse error
ParseRequestURIUnchecked(p) == TRUE

\* line 174: url.ParseRequestURI(p) succeeds
ParseRequestURI(p) == p \in GoodProxies

\* a loop that walks the slice from its end
CandidateReversed(s, i) == s[Len(s) + 1 - i]

\* line 173: the range loop takes the candidates in slice order
Candidate(s, i) == s[i]

\* a sweep that accepts any response, whatever its status
IsWorkingAnyStatus(resp) == ~resp.failed

\* lines 184-190: the probe neither failed nor answered anything but 200
IsWorking(resp) == ~resp.failed /\ resp.StatusCode = StatusOK

\* a caller that stores the return value without looking at it
StoreProxyUnchecked(config, proxyURL) == [config EXCEPT !.ProxyURL = <<proxyURL>>]

\* line 92: a non-empty return value is stored, an empty one leaves nil
StoreProxy(config, proxyURL) ==
    IF proxyURL # "" THEN [config EXCEPT !.ProxyURL = <<proxyURL>>] ELSE config

\* lines 173-191: one iteration of the loop over the candidates.  A
\* candidate that does not parse is skipped without a request.  When the
\* health URL does not parse, http.NewRequest returns a nil request (its
\* error is dropped on line 181) and client.Do panics on it.
ProbeCandidate ==
    /\ pc = "sweep"
    /\ idx <= Len(cands)
    /\ LET p == Candidate(cands, idx)
       IN  IF ~ParseRequestURI(p)
           THEN /\ idx' = idx + 1
                /\ UNCHANGED <<pc, bpConfig, probes>>
           ELSE IF ~RequestBuilds(HealthURL(bpConfig))
           THEN /\ pc' = "panic"
                /\ UNCHANGED <<idx, bpConfig, probes>>
           ELSE \E resp \in OutcomesFor(bpConfig.URL) :
                /\ probes' = Append(probes, [i |-> idx, proxy |-> p,
                                             url |-> HealthURL(bpConfig),
                                             resp |-> resp])
                /\ IF IsWorking(resp)
                   THEN /\ bpConfig' = StoreProxy(bpConfig, p)
                        /\ pc' = "resolved"
                        /\ UNCHANGED idx
                   ELSE /\ idx' = idx + 1
                        /\ UNCHANGED <<pc, bpConfig>>
    /\ UNCHANGED <<viperConfig, defaultTransport, inp, err, cands, heads, report>>

\* line 192 and lines 92-98: the candidates are used up, "" is returned,
\* ProxyURL stays nil, a warning is logged and the call succeeds
NoWorkingProxy ==
    /\ pc = "sweep"
    /\ idx > Len(cands)
    /\ bpConfig' = StoreProxy(bpConfig, "")
    /\ report' = [report EXCEPT !.logs = @ \cup {"no-proxy"}]
    /\ pc' = "resolved"
    /\ UNCHANGED <<viperConfig, defaultTransport, inp, err, cands, idx, probes, heads>>

----------------------------------------------------------------------------
(* verifyBackplaneConfiguration *)

GivenConfigs ==
    [URL : {"", "https://env.api", BadURL},
     ProxyURL : {<<>>} \cup {<<p>> : p \in Candidates},
     SessionDirectory : {"", "/file/dir"},
     AssumeInitialArn : {"", "arn:file"}]

\* lines 121-129: one warning for each empty field
EmptyFields(config) ==
    {f \in {"URL", "SessionDirectory", "AssumeInitialArn"} : config[f] = ""}

\* line 133
MandatoryMissing(config) == config.URL = "" \/ config.AssumeInitialArn = ""

\* lines 143-159: the error returned after the remediation template was
\* printed.  os.Stat's result is assigned to the function's err, so a
\* missing file is returned as the error and an existing one leaves nil;
\* the error of os.Open is returned, the one of io.Copy is only printed.
ErrAfterTemplate(stat) ==
    IF stat = "exists" THEN NoErr
    ELSE IF stat = "unopenable" THEN [kind |-> "open", env |-> ""]
    ELSE [kind |-> "notexist", env |-> ""]

\* lines 103-160, for any configuration a caller passes (only the three
\* string fields are read); the file is looked at only after the template
verifyBackplaneConfiguration ==
    /\ pc = "idle"
    /\ \E config \in GivenConfigs, pathErr \in BOOLEAN,
          stat \in {"absent", "exists", "unopenable"} :
        /\ config.ProxyURL = <<>>
        /\ config.URL # BadURL
        /\ (pathErr \/ ~MandatoryMissing(config)) => stat = "absent"
        /\ inp' = [inp EXCEPT !.config = config, !.pathErr = pathErr, !.stat = stat]
        /\ bpConfig' = config
        /\ IF pathErr
           THEN /\ err' = [kind |-> "homedir", env |-> ""]
                /\ UNCHANGED report
           ELSE IF MandatoryMissing(config)
           THEN /\ err' = ErrAfterTemplate(stat)
                /\ report' = [report EXCEPT !.warned = EmptyFields(config),
                                            !.template = TRUE,
                                            !.dumped = (stat = "exists")]
           ELSE /\ err' = NoErr
                /\ report' = [report EXCEPT !.warned = EmptyFields(config),
                                            !.logs = {"populated"}]
    /\ pc' = "verified"
    /\ UNCHANGED <<viperConfig, defaultTransport, cands, idx, probes, heads>>

----------------------------------------------------------------------------
(* CheckAPIConnection *)

\* line 250: url.Parse(*config.ProxyURL) succeeds
urlParse(p) == p # BadProxy

\* lines 249-255: the transport the request will use.  The client is built
\* without a Transport, so it uses http.DefaultTransport, which is replaced
\* by one routing through the proxy when the configuration has one.
TransportAfter(config, transport) ==
    IF config.ProxyURL # <<>> /\ urlParse(config.ProxyURL[1])
    THEN config.ProxyURL[1] ELSE transport

\* a check that also rejects every status other than 200
ConnectionErrorOnStatus(resp) ==
    IF resp.failed \/ resp.StatusCode # StatusOK
    THEN [kind |-> "transport", env |-> ""] ELSE NoErr

\* lines 234-240: the transport error is returned, anything else is nil
ConnectionError(resp) ==
    IF resp.failed THEN [kind |-> "transport", env |-> ""] ELSE NoErr

\* lines 231-267, for any configuration a caller passes (only URL and
\* ProxyURL are read)
CheckAPIConnection ==
    /\ pc = "idle"
    /\ \E config \in GivenConfigs :
        /\ config.SessionDirectory = "" /\ config.AssumeInitialArn = ""
        /\ inp' = [inp EXCEPT !.config = config]
        /\ bpConfig' = config
        /\ defaultTransport' = TransportAfter(config, defaultTransport)
        /\ IF config.ProxyURL # <<>> /\ ~urlParse(config.ProxyURL[1])
           THEN /\ err' = [kind |-> "proxyparse", env |-> ""]
                /\ UNCHANGED heads
           ELSE IF ~RequestBuilds(config.URL)
           THEN /\ err' = [kind |-> "newrequest", env |-> ""]
                /\ UNCHANGED heads
           ELSE \E resp \in OutcomesFor(config.URL) :
                /\ heads' = Append(heads, [method |-> "HEAD", url |-> config.URL,
                                           via |-> defaultTransport',
                                           resp |-> resp])
                /\ err' = ConnectionError(resp)
    /\ pc' = "checked"
    /\ UNCHANGED <<viperConfig, cands, idx, probes, report>>

----------------------------------------------------------------------------
(* Between calls *)

\* the call has returned to its caller: its locals are gone, the
\* process-wide state stays
Return ==
    /\ pc \in {"resolved", "verified", "checked"}
    /\ pc' = "idle"
    /\ inp' = NoInput
    /\ bpConfig' = ZeroConfig
    /\ err' = NoErr
    /\ cands' = <<>>
    /\ idx' = 0
    /\ probes' = <<>>
    /\ heads' = <<>>
    /\ report' = NoReport
    /\ UNCHANGED <<viperConfig, defaultTransport>>

\* the process ends (normally or by the panic) and a new one starts
Restart ==
    /\ pc \in {"idle", "panic"}
    /\ viperConfig' = EmptyConfig
    /\ defaultTransport' = "direct"
    /\ pc' = "idle"
    /\ inp' = NoInput
    /\ bpConfig' = ZeroConfig
    /\ err' = NoErr
    /\ cands' = <<>>
    /\ idx' = 0
    /\ probes' = <<>>
    /\ heads' = <<>>
    /\ report' = NoReport

Next ==
    \/ LoadConfigFile
    \/ ResolveURL
    \/ ReadSettings
    \/ ProbeCandidate
    \/ NoWorkingProxy
    \/ verifyBackplaneConfiguration
    \/ CheckAPIConnection
    \/ Return
    \/ Restart

Spec == Init /\ [][Next]_vars

\* getFirstWorkingProxyURL called on its own, with any service URL and any
\* slice of candidates
InitSelect ==
    /\ viperConfig = EmptyConfig
    /\ defaultTransport = "direct"
    /\ pc = "sweep"
    /\ inp = NoInput
    /\ bpConfig \in {[ZeroConfig EXCEPT !.URL = u] : u \in EnvURLs \cup {OcmURL}}
    /\ err = NoErr
    /\ cands \in SeqsUpTo(Candidates, MaxCands)
    /\ idx = 1
    /\ probes = <<>>
    /\ heads = <<>>
    /\ report = NoReport

NextSelect == ProbeCandidate \/ NoWorkingProxy

SpecSelect == InitSelect /\ [][NextSelect]_vars

----------------------------------------------------------------------------
(* Properties *)

IsOK(resp) == ~resp.failed /\ resp.StatusCode = 200
ProbesAt(j) == {k \in 1..Len(probes) : probes[k].i = j}
Parses(p) == p \in GoodProxies

\* C1: a configuration GetBackplaneConfiguration returns has ProxyURL set
\* only to a proxy through which a GET of URL + "/healthz" answered 200
\* during the same call
C1_ProxyOnlyAfterProbe ==
    (pc = "resolved" /\ bpConfig.ProxyURL # <<>>) =>
        \E k \in 1..Len(probes) :
            /\ probes[k].proxy = bpConfig.ProxyURL[1]
            /\ probes[k].url = bpConfig.URL \o "/healthz"
            /\ IsOK(probes[k].resp)

\* a call that read its candidate from the file, probed it and kept it
C1_Witness ==
    /\ pc = "resolved"
    /\ bpConfig.ProxyURL # <<>>
    /\ inp.file.kind = "json"
    /\ inp.file.cfg.proxy = <<bpConfig.ProxyURL[1]>>
    /\ ~inp.envProxy.ok

\* C2: the sweep probes the candidates in slice order, each position at most
\* once, returns the earliest candidate whose probe answers 200 and sends
\* no probe after that one
C2_FirstMatchWins ==
    /\ \A k \in 1..Len(probes) :
        /\ probes[k].i \in 1..Len(cands)
        /\ probes[k].proxy = cands[probes[k].i]
        /\ IsOK(probes[k].resp) =>
              /\ k = Len(probes)
              /\ pc = "resolved"
              /\ bpConfig.ProxyURL = <<probes[k].proxy>>
    /\ \A j, k \in 1..Len(probes) : j < k => probes[j].i < probes[k].i
    /\ (pc = "resolved" /\ bpConfig.ProxyURL # <<>>) =>
        /\ Len(probes) > 0
        /\ IsOK(probes[Len(probes)].resp)
        /\ bpConfig.ProxyURL = <<cands[probes[Len(probes)].i]>>
        /\ \A j \in 1..(probes[Len(probes)].i - 1) :
              Parses(cands[j]) => ProbesAt(j) # {}

\* two different candidates that parse, the first answered 200 and was
\* returned, the second was never probed
C2_Witness ==
    /\ pc = "resolved"
    /\ Len(cands) = 2
    /\ Parses(cands[1]) /\ Parses(cands[2]) /\ cands[1] # cands[2]
    /\ bpConfig.ProxyURL = <<cands[1]>>
    /\ Len(probes) = 1

\* C3: a candidate that does not parse is never probed, and a candidate
\* that does not parse, whose probe fails or answers another status than
\* 200 is passed over once and the sweep goes on with the next one
C3_SkipAndContinue ==
    /\ \A k \in 1..Len(probes) : Parses(probes[k].proxy)
    /\ pc \in {"sweep", "resolved"} =>
        \A j \in 1..Len(cands) :
            j < idx =>
                /\ Cardinality(ProbesAt(j)) = IF Parses(cands[j]) THEN 1 ELSE 0
                /\ \A k \in ProbesAt(j) : ~IsOK(probes[k].resp)
    /\ pc = "resolved" =>
        \/ /\ idx = Len(cands) + 1
           /\ bpConfig.ProxyURL = <<>>
        \/ /\ idx \in 1..Len(cands)
           /\ bpConfig.ProxyURL = <<cands[idx]>>
           /\ \E k \in ProbesAt(idx) : IsOK(probes[k].resp)

\* the first candidate did not parse and the second, answering 200, was
\* returned
C3_Witness ==
    /\ pc = "resolved"
    /\ Len(cands) = 2
    /\ ~Parses(cands[1])
    /\ bpConfig.ProxyURL = <<cands[2]>>
    /\ Len(probes) = 1

\* C4: with no candidates no probe is sent; when the candidates are used up
\* without a 200 the call returns without error, ProxyURL nil, and URL,
\* SessionDirectory and AssumeInitialArn set as in any other call
C4_NoSelectionIsNotAnError ==
    /\ (pc \in {"sweep", "resolved"} /\ cands = <<>>) => probes = <<>>
    /\ (pc = "resolved" /\ err = NoErr /\ \A k \in 1..Len(probes) : ~IsOK(probes[k].resp))
          => bpConfig.ProxyURL = <<>>
    /\ (pc = "resolved" /\ idx > Len(cands)) =>
        /\ err = NoErr
        /\ bpConfig.ProxyURL = <<>>
        /\ bpConfig.URL = IF inp.envURL.ok THEN inp.envURL.val ELSE inp.ocm.url
        /\ bpConfig.SessionDirectory =
              IF inp.auto.sd.ok /\ inp.auto.sd.val # "" THEN inp.auto.sd.val
              ELSE viperConfig.sd
        /\ bpConfig.AssumeInitialArn =
              IF inp.auto.arn.ok /\ inp.auto.arn.val # "" THEN inp.auto.arn.val
              ELSE viperConfig.arn

\* a call whose only candidate was probed and failed, and which returned a
\* populated configuration without proxy
C4_Witness ==
    /\ pc = "resolved"
    /\ idx > Len(cands)
    /\ Len(probes) = 1
    /\ err = NoErr
    /\ bpConfig.ProxyURL = <<>>
    /\ bpConfig.URL # ""
    /\ bpConfig.SessionDirectory # ""
    /\ bpConfig.AssumeInitialArn # ""

Words(s) == SelectSeq(s, LAMBDA t : t # " ")
IsSet(e) == e.ok /\ Len(e.val) > 0

\* C5 (as claimed): whenever the URL variable is set URL is its value, and
\* whenever the proxy variable is set the candidates are its fields alone
C5_EnvAlwaysWins ==
    /\ inp.envURL.ok => (bpConfig.URL = inp.envURL.val /\ ~inp.ocm.called)
    /\ (pc \in {"sweep", "resolved", "panic"} /\ inp.envProxy.ok) =>
          cands = Words(inp.envProxy.val)

\* C5 (amended): whenever the URL variable is set URL is its value and OCM
\* is not asked; whenever the proxy variable is set to a non-empty value,
\* and PROXY-URL is not, the candidates are its fields alone
C5_NonEmptyEnvWins ==
    /\ inp.envURL.ok => (bpConfig.URL = inp.envURL.val /\ ~inp.ocm.called)
    /\ (pc \in {"sweep", "resolved", "panic"} /\ IsSet(inp.envProxy)
          /\ ~IsSet(inp.auto.proxy)) =>
          cands = Words(inp.envProxy.val)

\* both variables set, against a file that has a url key and lists another
\* proxy
C5_Witness ==
    /\ pc = "resolved"
    /\ inp.envURL.ok
    /\ inp.file.kind = "json" /\ inp.file.cfg.url # ""
    /\ IsSet(inp.envProxy)
    /\ inp.file.cfg.proxy # <<>>
    /\ cands # <<>>
    /\ cands # inp.file.cfg.proxy
    /\ \A j \in 1..Len(cands) :
          \A k \in 1..Len(inp.file.cfg.proxy) : cands[j] # inp.file.cfg.proxy[k]

\* C6 (as claimed): the call returns an error exactly when the file is not
\* JSON or, without URL variable, the environment has no URL registered;
\* then no probe was sent
C6_ErrorsAsClaimed ==
    pc = "resolved" =>
        /\ err # NoErr <=>
              \/ inp.file.kind = "malformed"
              \/ inp.ocm.called /\ ~inp.ocm.failed /\ ~inp.ocm.found
        /\ err # NoErr => probes = <<>>

\* C6 (amended): the call returns an error exactly when the file path cannot
\* be determined, the file exists but cannot be read or is not JSON, or,
\* without URL variable, the OCM environment cannot be fetched or has no URL
\* registered (the error then names it); then no probe was sent
C6_ErrorsExactly ==
    pc = "resolved" =>
        /\ err # NoErr <=>
              \/ inp.pathErr
              \/ inp.file.kind \in {"unreadable", "malformed"}
              \/ inp.ocm.called /\ (inp.ocm.failed \/ ~inp.ocm.found)
        /\ inp.ocm.called => ~inp.envURL.ok
        /\ (inp.ocm.called /\ ~inp.ocm.failed /\ ~inp.ocm.found) =>
              err = [kind |-> "noendpoint", env |-> inp.ocm.name]
        /\ err # NoErr => probes = <<>>

\* no file, no URL variable, an environment without URL: the error names it
C6_Witness ==
    /\ pc = "resolved"
    /\ inp.file.kind = "absent"
    /\ ~inp.envURL.ok
    /\ err = [kind |-> "noendpoint", env |-> "integration"]

\* C7 (as claimed): the validator returns an error exactly when URL or
\* AssumeInitialArn is empty, naming both when both are, whether or not the
\* configuration file exists
C7_InvalidIffMandatoryMissing ==
    (pc = "verified" /\ ~inp.pathErr) =>
        /\ err # NoErr <=> (bpConfig.URL = "" \/ bpConfig.AssumeInitialArn = "")
        /\ (bpConfig.URL = "" /\ bpConfig.AssumeInitialArn = "") =>
              {"URL", "AssumeInitialArn"} \subseteq report.warned

\* C8 (as claimed): every call sends exactly one HEAD request to URL,
\* returns nil when it is answered and the transport error when it fails
C8_ExactlyOneHead ==
    pc = "checked" =>
        /\ Len(heads) = 1
        /\ heads[1].method = "HEAD" /\ heads[1].url = bpConfig.URL
        /\ ~heads[1].resp.failed => err = NoErr
        /\ heads[1].resp.failed => err = [kind |-> "transport", env |-> ""]

\* C8 (amended): a call sends at most one HEAD request to URL: none, and
\* the parse error is returned, when ProxyURL or URL does not parse, else
\* exactly one; it returns nil when the request is answered, whatever the
\* status, and the transport error when it fails
C8_AtMostOneHead ==
    pc = "checked" =>
        /\ Len(heads) <= 1
        /\ Len(heads) = 0 <=>
              \/ bpConfig.ProxyURL # <<>> /\ bpConfig.ProxyURL[1] = BadProxy
              \/ bpConfig.URL = BadURL
        /\ Len(heads) = 0 => err.kind \in {"proxyparse", "newrequest"}
        /\ Len(heads) = 1 =>
              /\ heads[1].method = "HEAD" /\ heads[1].url = bpConfig.URL
              /\ ~heads[1].resp.failed => err = NoErr
              /\ heads[1].resp.failed => err = [kind |-> "transport", env |-> ""]

\* one request, answered 503, and no error
C8_Witness ==
    /\ pc = "checked"
    /\ Len(heads) = 1
    /\ ~heads[1].resp.failed /\ heads[1].resp.StatusCode # 200
    /\ err = NoErr

\* C9 (as claimed): the default transport stays what it was when the
\* process started, and the request of a configuration without ProxyURL
\* goes out directly
C9_DefaultTransportUntouched ==
    /\ defaultTransport = "direct"
    /\ (pc = "checked" /\ bpConfig.ProxyURL = <<>>) =>
          \A k \in 1..Len(heads) : heads[k].via = "direct"

\* C10 (as claimed): what a call returns is decided by the environment and
\* the file as they are during the call: with the file missing, by the
\* environment alone
C10_NothingCarriedOver ==
    (pc \in {"sweep", "resolved"} /\ err = NoErr /\ idx >= 1) =>
        /\ bpConfig.SessionDirectory =
              IF inp.auto.sd.ok /\ inp.auto.sd.val # "" THEN inp.auto.sd.val
              ELSE inp.file.cfg.sd
        /\ bpConfig.AssumeInitialArn =
              IF inp.auto.arn.ok /\ inp.auto.arn.val # "" THEN inp.auto.arn.val
              ELSE inp.file.cfg.arn
        /\ cands =
              IF IsSet(inp.auto.proxy) THEN Words(inp.auto.proxy.val)
              ELSE IF IsSet(inp.envProxy) THEN Words(inp.envProxy.val)
              ELSE inp.file.cfg.proxy

====
